---- MODULE Spec2Model ----
(***************************************************************************)
(* Agilent 663xx driver (agilent_663xxx.py): the triggered acquisition     *)
(* sequence Log.start_meas_sample, the accessors it is built on            *)
(* (Command.read_write, Status.opr_*_reg, Common.sre, Trigger.sense) and   *)
(* the instrument's operation-status register group it drives.             *)
(* Between runs the get/set accessors (Status.opr_enable_reg,              *)
(* Log.sample_points, Trigger.source, Channel.voltage, Channel.current)    *)
(* are called with valid and invalid arguments.                            *)
(* Common.rst and the capability-gated methods (Trigger.dvm_*,             *)
(* Channel.impedance, Display.show_ch2) are modelled the same way, with    *)
(* the flags of global_input_values shared by every Device object.         *)
(*                                                                         *)
(* Strings that the code inspects character by character (the sense reply  *)
(* tested with `in`, the validator's tuple text) are sequences of          *)
(* one-character strings.  SCPI command mnemonics that are only sent are   *)
(* plain strings.                                                          *)
(***************************************************************************)
EXTENDS Integers, Sequences, FiniteSets, TLC

VARIABLES
    inst,          \* the instrument: registers, trigger subsystem, SENS:FUNC
    srq,           \* a service request is pending at the controller
    dvm,           \* global_input_values['dvm']
    trig,          \* Trigger._trig, the trigger settings cache
    log_data,      \* Log.log_data
    pc,            \* position of the caller inside start_meas_sample
    loc,           \* locals of start_meas_sample
    trace,         \* bus operations of the current (or last) run, in order
    outcome,       \* how the last run ended: "none", "returned", "raised"
    pre,           \* instrument registers when the current run was called
    runs,          \* number of start_meas_sample calls so far
    dev,           \* the instrument's sweep and output settings and samples
    log_settings,  \* Log._log, the sweep settings cache
    ch_set,        \* Channel._ch_set of ch1 and ch2
    call,          \* the last accessor call: arguments, bus traffic, result
    last_timeout,  \* the registers before the latest run that timed out
    caps           \* the connected model, global_input_values, and what
                   \* Device and Display took from it at construction

\* what start_meas_sample only reads
settings == <<dev, log_settings, ch_set, caps>>

vars == <<inst, srq, dvm, trig, log_data, pc, loc, trace, outcome, pre, runs,
          dev, log_settings, ch_set, call, last_timeout, caps>>

----------------------------------------------------------------------------
(* Bounds *)

MaxRuns == 2

----------------------------------------------------------------------------
(* Bit arithmetic on register values *)

HasBit(x, b) == (x \div b) % 2 = 1

\* start_meas_sample: wait_for_trig = 32
wait_for_trig == 32

\* start_meas_sample: sre_status_bit = 128
sre_status_bit == 128

\* register values the instrument accepts for its operation status group
RegValues == {0, 5, 32, 32767}

\* values of a 16-bit unsigned register store
RegValues16 == {0, 32767, 32768, 65535}

SreValues == {0, 16}

NoArg == 0 - 1

----------------------------------------------------------------------------
(* Character strings *)

DQ == "\""

CURR == <<"C", "U", "R", "R">>
VOLT == <<"V", "O", "L", "T">>
DVM  == <<"D", "V", "M">>

Quoted(s) == <<DQ>> \o s \o <<DQ>>

\* Python's  x in y  on two strings: x occurs in y as a contiguous run
StrIn(x, y) ==
    \E i \in 0..(Len(y) - Len(x)) : SubSeq(y, i + 1, i + Len(x)) = x

LowerMap ==
    [c \in {"C", "U", "R", "V", "O", "L", "T", "D", "M", "X", "Y", "Z",
            "A", "B", "E", "I", "N", "S", "G", "H", "P"} |->
        CASE c = "C" -> "c" [] c = "U" -> "u" [] c = "R" -> "r"
          [] c = "V" -> "v" [] c = "O" -> "o" [] c = "L" -> "l"
          [] c = "T" -> "t" [] c = "D" -> "d" [] c = "M" -> "m"
          [] c = "X" -> "x" [] c = "Y" -> "y" [] c = "Z" -> "z"
          [] c = "A" -> "a" [] c = "B" -> "b" [] c = "E" -> "e"
          [] c = "I" -> "i" [] c = "N" -> "n" [] c = "S" -> "s"
          [] c = "G" -> "g" [] c = "H" -> "h" [] c = "P" -> "p"]

UpperMap ==
    [c \in {LowerMap[C] : C \in DOMAIN LowerMap} |->
        CHOOSE C \in DOMAIN LowerMap : LowerMap[C] = c]

\* str.lower()
lower(s) == [i \in 1..Len(s) |-> IF s[i] \in DOMAIN LowerMap
                                  THEN LowerMap[s[i]] ELSE s[i]]

\* str.upper()
upper(s) == [i \in 1..Len(s) |-> IF s[i] \in DOMAIN UpperMap
                                  THEN UpperMap[s[i]] ELSE s[i]]

----------------------------------------------------------------------------
(* Validators *)

\* Validate.int_range:  x in range(y[0], y[1] + 1)
int_range(x, y) == x \in y[1]..y[2]

\* Validate.int_rng_tuple on an int value: "ok" stands for the returned
\* str(val), "ValueError" for the returned ValueError object
int_rng_tuple(validation_set, value) ==
    IF int_range(value, validation_set) THEN "ok" ELSE "ValueError"

\* ValidateRegister.register_8
register_8(value) == int_rng_tuple(<<0, 128>>, value)

\* register_16 with the bounds of register_8
register_16_as_8(value) == int_rng_tuple(<<0, 128>>, value)

\* ValidateRegister.register_16
register_16(value) == int_rng_tuple(<<0, 32767>>, value)

----------------------------------------------------------------------------
(* The instrument behind self._bus *)

RECURSIVE BitAnd(_, _)
BitAnd(x, y) ==
    IF x = 0 \/ y = 0 THEN 0
    ELSE (x % 2) * (y % 2) + 2 * BitAnd(x \div 2, y \div 2)

SetBit(x, b) == IF HasBit(x, b) THEN x ELSE x + b

\* bit 10 (CC) of the operation status group, an event unrelated to WTG
other_oper_bit == 2^10

\* OPER summary bit of the status byte, masked by the service request enable
\* register: the instrument requests service while this holds
MSS(i) == HasBit(i.sre, sre_status_bit) /\ BitAnd(i.event, i.enable) # 0

\* a service request that is lost unless the controller is waiting for it
SrqAfter_waiting(i, j, s) ==
    IF ~MSS(j) THEN FALSE ELSE IF ~MSS(i) THEN pc = "wait" ELSE s

\* the service request line after the instrument went from state i to j:
\* raised when the summary bit rises, held until the serial poll
SrqAfter(i, j, s) ==
    IF ~MSS(j) THEN FALSE ELSE IF ~MSS(i) THEN TRUE ELSE s

\* WTG condition bit rises: latched into the event register through PTR
Arm(i) ==
    IF i.acq = "armed" THEN i
    ELSE [i EXCEPT !.acq = "armed",
                   !.event = IF HasBit(i.ptr, wait_for_trig)
                             THEN SetBit(i.event, wait_for_trig)
                             ELSE i.event]

\* the acquisition trigger fires: WTG falls, latched through NTR
Fire(i) ==
    IF i.acq # "armed" THEN i
    ELSE [i EXCEPT !.acq = "done",
                   !.event = IF HasBit(i.ntr, wait_for_trig)
                             THEN SetBit(i.event, wait_for_trig)
                             ELSE i.event]

\* functions SENS:FUNC accepts on this model
SenseFunctions(d) == IF d THEN {CURR, VOLT, DVM} ELSE {CURR, VOLT}

\* self._bus.write(cmd [+ ' ' + arg]) as the instrument executes it
BusWrite(i, cmd, arg) ==
    CASE cmd = ":STAT:OPER:PTR"  -> [i EXCEPT !.ptr = arg]
      [] cmd = ":STAT:OPER:NTR"  -> [i EXCEPT !.ntr = arg]
      [] cmd = ":STAT:OPER:ENAB" -> [i EXCEPT !.enable = arg]
      [] cmd = "*SRE"            -> [i EXCEPT !.sre = arg]
      [] cmd = "*WAI"            -> i
      [] cmd = "INIT:NAME ACQ"   -> Arm(i)
      [] cmd = "TRIG:ACQ"        -> IF i.source = "BUS" THEN Fire(i) ELSE i
      [] OTHER                   -> i

\* the reply of self._bus.query(cmd) as a number
BusReply(i, cmd) ==
    CASE cmd = "STAT:OPER?"       -> i.event
      [] cmd = ":STAT:OPER:PTR?"  -> i.ptr
      [] cmd = ":STAT:OPER:NTR?"  -> i.ntr
      [] cmd = ":STAT:OPER:ENAB?" -> i.enable
      [] cmd = "*SRE?"            -> i.sre
      [] OTHER                    -> NoArg

\* what a query does to the instrument: reading an event register clears it
BusQuery(i, cmd) ==
    IF cmd = "STAT:OPER?" THEN [i EXCEPT !.event = 0] ELSE i

----------------------------------------------------------------------------
(* Command *)

\* Command.write / Command.read_write with a value: one bus write
Write(cmd, arg) ==
    /\ inst' = BusWrite(inst, cmd, arg)
    /\ srq' = SrqAfter(inst, inst', srq)
    /\ trace' = Append(trace, <<cmd, arg>>)

\* Command.read / Command.read_write without a value: one bus query
Query(cmd) ==
    /\ inst' = BusQuery(inst, cmd)
    /\ srq' = SrqAfter(inst, inst', srq)
    /\ trace' = Append(trace, <<cmd, NoArg>>)

\* Command.read_write(query, write, validator, value) with value not None
\* and no settings dictionary, val being validator(value): write when the
\* validator accepts, otherwise print the error and send nothing
read_write(write, val, value) ==
    IF val = "ok"
    THEN Write(write, value)
    ELSE UNCHANGED <<inst, srq, trace>>

\* Status.opr_ptr_reg(reg_value)
opr_ptr_reg(reg_value) ==
    read_write(":STAT:OPER:PTR", register_16(reg_value), reg_value)

\* Status.opr_ntr_reg(reg_value)
opr_ntr_reg(reg_value) ==
    read_write(":STAT:OPER:NTR", register_16(reg_value), reg_value)

\* Status.opr_enable_reg(reg_value)
opr_enable_reg(reg_value) ==
    read_write(":STAT:OPER:ENAB", register_16(reg_value), reg_value)

\* Common.sre(reg_value)
sre(reg_value) == read_write("*SRE", register_8(reg_value), reg_value)

----------------------------------------------------------------------------
(* Python values and the record of an accessor call *)

\* a Python value: its type, an integer payload and a string payload
None       == [t |-> "NoneType", i |-> 0, s |-> <<>>]
PyInt(n)   == [t |-> "int", i |-> n, s |-> <<>>]
PyStr(x)   == [t |-> "str", i |-> 0, s |-> x]
PyList     == [t |-> "list", i |-> 0, s |-> <<>>]

\* a float, counted in the unit of its quantity: 0.0001 V or A for an
\* output setting, the sampling period of 15.6 us for an integration time
PyFloat(n) == [t |-> "float", i |-> n, s |-> <<>>]

\* one self._bus.write or self._bus.query of a call
BusOp(kind, cmd, arg) == [kind |-> kind, cmd |-> cmd, arg |-> arg]

\* what a call gave back: None, the instrument's reply, or an exception
Ret(k, v) == [k |-> k, v |-> v]

Called(name, ch, arg, ops, ret) ==
    [name |-> name, ch |-> ch, arg |-> arg, ops |-> ops, ret |-> ret]

NoCall == Called("", 0, None, <<>>, Ret("None", None))

----------------------------------------------------------------------------
(* Trigger *)

\* str(validation_set) of a tuple of strings: ('volt', 'curr')
RECURSIVE TupleItems(_)
TupleItems(t) ==
    IF Len(t) = 0 THEN <<>>
    ELSE <<"'">> \o Head(t) \o <<"'">> \o
         (IF Len(t) > 1 THEN <<",", " ">> ELSE <<>>) \o TupleItems(Tail(t))

TupleRepr(t) == <<"(">> \o TupleItems(t) \o <<")">>

\* str() of the ValueError object a validator returns
ValueErrorText == <<"ValueError!">>

\* Validate.find_element:  x in y
find_element(x, y) == StrIn(x, y)

\* Validate.str_tuple on a str value: the upper-cased value, or the error
str_tuple(validation_set, value) ==
    IF find_element(lower(value), lower(TupleRepr(validation_set)))
    THEN upper(lower(value))
    ELSE ValueErrorText

\* ValidateTrigger.sense
validate_sense(value) ==
    IF dvm
    THEN str_tuple(<<lower(VOLT), lower(CURR), lower(DVM)>>, value)
    ELSE str_tuple(<<lower(VOLT), lower(CURR)>>, value)

\* values passed to Trigger.sense
SenseInputs == {lower(VOLT), lower(DVM), CURR,
                <<"c", "u", "r">>, <<"x", "y", "z">>}

\* SENS:FUNC "<val>" as the instrument executes it
SetFunction(i, val) ==
    IF val \in SenseFunctions(dvm) THEN [i EXCEPT !.func = val] ELSE i

\* the key of Trigger._trig that Trigger.sense stores the read-back under
sense_key == "settings"

\* Trigger.sense(set_sense) with set_sense not None
TriggerSense(set_sense) ==
    /\ pc = "idle"
    /\ LET val == validate_sense(set_sense) IN
       /\ inst' = SetFunction(inst, val)
       /\ trig' = [trig EXCEPT ![sense_key] = Quoted(inst'.func)]
       /\ call' = Called("sense", 0, PyStr(set_sense),
                         <<BusOp("write", "SENS:FUNC", PyStr(Quoted(val))),
                           BusOp("query", "SENS:FUNC?", None)>>,
                         Ret("None", None))
    /\ UNCHANGED <<srq, dvm, log_data, pc, loc, trace, outcome, pre, runs,
                   settings, last_timeout>>

----------------------------------------------------------------------------
(* Capabilities *)

\* model strings of the 663xx family, as *IDN? reports them
Models == {"66309B", "66309D", "66311B", "66311D",
           "66319B", "66319D", "66321B", "66321D"}

\* line 102
HasCh2(model) == model \in {"66319B", "66319D"}

\* lines 103-104
HasDvm(model) == model \in {"66321D", "66319D", "66309D"}

\* lines 105-106
HasExpanded(model) == model \in {"66321B", "66321D", "66319B", "66319D"}

\* the string 'NA' a gated method returns
NA == PyStr(<<"N", "A">>)

\* Device(visa_addr) against an instrument of the given model: lines 100-106
\* fill global_input_values, Display.__init__ copies the ch2 flag
\* (line 328) and Device creates ch2 when the flag is set (lines 115-116)
Connect(model) ==
    /\ dvm = HasDvm(model)
    /\ caps = [model |-> model,
               ch2 |-> HasCh2(model),
               expanded_features |-> HasExpanded(model),
               has_ch2 |-> HasCh2(model),
               ch2_attr |-> HasCh2(model)]

----------------------------------------------------------------------------
(* Accessors built on Command.read_write *)

\* isinstance(val, (ValueError, TypeError)) with ValueError alone
IsError_value(val) == val = "ValueError"

\* isinstance(val, (ValueError, TypeError)) on what a validator returned
IsError(val) == val \in {"ValueError", "TypeError"}

\* Validate.int_rng_tuple on any value
Validate_int_rng_tuple(validation_set, value) ==
    IF value.t = "int"
    THEN int_rng_tuple(validation_set, value.i)
    ELSE "TypeError"

\* Validate.str_tuple on any value
Validate_str_tuple(validation_set, value) ==
    IF value.t = "str"
    THEN IF str_tuple(validation_set, value.s) = ValueErrorText
         THEN "ValueError" ELSE "ok"
    ELSE "TypeError"

\* Validate.int_rng_and_str_tuples
int_rng_and_str_tuples(validation_set, value) ==
    IF value.t = "int"
    THEN int_rng_tuple(validation_set[1], value.i)
    ELSE Validate_str_tuple(validation_set[2], value)

\* round(float(value), 3) of a value counted in units of 0.0001
round3(n) == ((n + 5) \div 10) * 10

\* Validate.float_range:  y[0] <= x <= y[1]
float_range(x, y) == y[1] <= x /\ x <= y[2]

\* Validate.float_rng_and_str_tuples with round_to = 3
float_rng_and_str_tuples(validation_set, value) ==
    IF value.t \in {"float", "int"}
    THEN IF float_range(round3(value.i), validation_set[1])
         THEN "ok" ELSE "ValueError"
    ELSE Validate_str_tuple(validation_set[2], value)

min_max == << <<"m", "i", "n">>, <<"m", "a", "x">> >>

\* ValidateChannel.voltage: (0.0, 15.535) on channel 1, (0.0, 12.25) on 2
voltage_values == << <<0, 155350>>, <<0, 122500>> >>

\* ValidateChannel.current: (0.0, 3.0712) on channel 1, (0.0, 1.52) on 2
current_values == << <<0, 30712>>, <<0, 15200>> >>

validate_voltage(value, channel) ==
    float_rng_and_str_tuples(<<voltage_values[channel], min_max>>, value)

validate_current(value, channel) ==
    float_rng_and_str_tuples(<<current_values[channel], min_max>>, value)

\* ValidateLog.sample_points
sample_length_values == <<1, 4096>>

validate_sample_points(value) ==
    int_rng_and_str_tuples(<<sample_length_values, min_max>>, value)

\* ValidateLog.integration_time: (0.0000156, 31200.0) in sampling periods
sample_interval_values == <<1, 2000000000>>

\* round(float(value), 7) leaves a whole number of sampling periods as it is
validate_integration_time(value) ==
    IF value.t \in {"float", "int"}
    THEN IF float_range(value.i, sample_interval_values)
         THEN "ok" ELSE "ValueError"
    ELSE Validate_str_tuple(min_max, value)

\* ValidateTrigger.dvm: (-4.5, 25.0)
dvm_values == <<0 - 45000, 250000>>

validate_dvm(value) ==
    float_rng_and_str_tuples(<<dvm_values, min_max>>, value)

\* ValidateTrigger.slope
slope_values == << <<"p", "o", "s">>, <<"n", "e", "g">>,
                  <<"e", "i", "t", "h">> >>

validate_slope(value) == Validate_str_tuple(slope_values, value)

\* ValidateChannel.impedance: (-0.4, 1.0)
impedance_values == <<0 - 4000, 10000>>

validate_impedance(value) ==
    float_rng_and_str_tuples(<<impedance_values, min_max>>, value)

\* ValidateTrigger.source
source_values == << <<"i", "n", "t">>, <<"e", "x", "t">>, <<"b", "u", "s">> >>

validate_source(value) == Validate_str_tuple(source_values, value)

\* ValidateRegister.register_16 on any value
validate_register_16(value) == Validate_int_rng_tuple(<<0, 32767>>, value)

Tokens(validation_set) == {validation_set[k] : k \in DOMAIN validation_set}

\* the mnemonic of a trigger source given as text
SourceName(x) ==
    CASE x = <<"I", "N", "T">> -> "INT"
      [] x = <<"E", "X", "T">> -> "EXT"
      [] x = <<"B", "U", "S">> -> "BUS"

SourceChars(x) ==
    CASE x = "INT" -> <<"I", "N", "T">>
      [] x = "EXT" -> <<"E", "X", "T">>
      [] x = "BUS" -> <<"B", "U", "S">>

IsNumber(value) == value.t \in {"int", "float"}

\* the instrument executing  <cmd> <str(value)> : a parameter it cannot
\* take raises an instrument error and leaves the setting as it was
DevWrite(i, d, cmd, value) ==
    CASE cmd = ":STAT:OPER:ENAB" ->
            [inst |-> IF value.t = "int" /\ value.i \in 0..32767
                      THEN BusWrite(i, cmd, value.i) ELSE i,
             dev |-> d]
      [] cmd = "TRIG:ACQ:SOUR" ->
            [inst |-> IF value.t = "str"
                         /\ lower(value.s) \in Tokens(source_values)
                      THEN [i EXCEPT !.source = SourceName(upper(value.s))]
                      ELSE i,
             dev |-> d]
      [] cmd = "SENS:SWE:POIN" ->
            [inst |-> i,
             dev |-> IF value.t = "int" /\ int_range(value.i,
                                                     sample_length_values)
                     THEN [d EXCEPT !.points = value.i]
                     ELSE IF value.t = "str" /\ lower(value.s) \in Tokens(min_max)
                     THEN [d EXCEPT !.points =
                              IF lower(value.s) = min_max[1]
                              THEN sample_length_values[1]
                              ELSE sample_length_values[2]]
                     ELSE d]
      [] cmd = "SENS:SWE:TINT" ->
            [inst |-> i,
             dev |-> IF IsNumber(value)
                        /\ float_range(value.i, sample_interval_values)
                     THEN [d EXCEPT !.tint = value.i] ELSE d]
      [] cmd = "TRIG:ACQ:LEV:DVM" ->
            [inst |-> i,
             dev |-> IF HasDvm(caps.model) /\ IsNumber(value)
                        /\ float_range(value.i, dvm_values)
                     THEN [d EXCEPT !.dvm_level = value.i] ELSE d]
      [] cmd = "TRIG:ACQ:HYST:DVM" ->
            [inst |-> i,
             dev |-> IF HasDvm(caps.model) /\ IsNumber(value)
                        /\ float_range(value.i, dvm_values)
                     THEN [d EXCEPT !.dvm_hysteresis = value.i] ELSE d]
      [] cmd = "TRIG:ACQ:SLOP:DVM" ->
            [inst |-> i,
             dev |-> IF HasDvm(caps.model) /\ value.t = "str"
                        /\ lower(value.s) \in Tokens(slope_values)
                     THEN [d EXCEPT !.dvm_slope = upper(value.s)] ELSE d]
      [] cmd = "RES" ->
            [inst |-> i,
             dev |-> IF HasExpanded(caps.model) /\ IsNumber(value)
                        /\ float_range(value.i, impedance_values)
                     THEN [d EXCEPT !.res = value.i] ELSE d]
      [] cmd \in {"VOLT", "VOLT2"} ->
            LET c == IF cmd = "VOLT" THEN 1 ELSE 2 IN
            [inst |-> i,
             dev |-> IF IsNumber(value)
                        /\ float_range(value.i, voltage_values[c])
                     THEN [d EXCEPT !.volt[c] = value.i] ELSE d]
      [] cmd \in {"CURR", "CURR2"} ->
            LET c == IF cmd = "CURR" THEN 1 ELSE 2 IN
            [inst |-> i,
             dev |-> IF IsNumber(value)
                        /\ float_range(value.i, current_values[c])
                     THEN [d EXCEPT !.curr[c] = value.i] ELSE d]

\* the instrument's reply to a settings query
DevReply(i, d, cmd) ==
    CASE cmd = ":STAT:OPER:ENAB?" -> PyInt(i.enable)
      [] cmd = "TRIG:ACQ:SOUR?"   -> PyStr(SourceChars(i.source))
      [] cmd = "SENS:SWE:POIN?"   -> PyInt(d.points)
      [] cmd = "SENS:SWE:TINT?"   -> PyFloat(d.tint)
      [] cmd = "TRIG:ACQ:LEV:DVM?"  -> PyFloat(d.dvm_level)
      [] cmd = "TRIG:ACQ:HYST:DVM?" -> PyFloat(d.dvm_hysteresis)
      [] cmd = "TRIG:ACQ:SLOP:DVM?" -> PyStr(d.dvm_slope)
      [] cmd = "RES?"               -> PyFloat(d.res)
      [] cmd = "VOLT?"            -> PyFloat(d.volt[1])
      [] cmd = "VOLT2?"           -> PyFloat(d.volt[2])
      [] cmd = "CURR?"            -> PyFloat(d.curr[1])
      [] cmd = "CURR2?"           -> PyFloat(d.curr[2])

\* read_write_ops taking every falsy value for "no argument"
read_write_ops_falsy(query, write, val, value, cached) ==
    IF value = None \/ (value.i = 0 /\ value.s = <<>>)
    THEN <<BusOp("query", query, None)>>
    ELSE IF IsError(val) THEN <<>>
    ELSE <<BusOp("write", write, value)>> \o
         (IF cached THEN <<BusOp("query", query, None)>> ELSE <<>>)

\* the bus operations of
\*   Command.read_write(query, write, validator, value, value_dict, key)
\* val being validator(value), or "None" when validator is None, and cached
\* telling whether value_dict is not None
read_write_ops(query, write, val, value, cached) ==
    IF value = None
    THEN <<BusOp("query", query, None)>>
    ELSE IF IsError(val) THEN <<>>
    ELSE <<BusOp("write", write, value)>> \o
         (IF cached THEN <<BusOp("query", query, None)>> ELSE <<>>)

\* what Command.read_write returns: the reply when value is None, else None
read_write_ret(value, reply) ==
    IF value = None THEN Ret("reply", reply) ELSE Ret("None", None)

Writes(ops) == {k \in 1..Len(ops) : ops[k].kind = "write"}

Queries(ops) == {k \in 1..Len(ops) : ops[k].kind = "query"}

\* value_dict[value_key] was assigned: the query followed a write
Refreshed(ops) == Writes(ops) # {} /\ Queries(ops) # {}

\* one call of an accessor that hands its arguments to Command.read_write
Accessor(name, ch, query, write, val, value, cached) ==
    LET ops   == read_write_ops(query, write, val, value, cached)
        after == IF Writes(ops) # {}
                 THEN DevWrite(inst, dev, write, value)
                 ELSE [inst |-> inst, dev |-> dev]
    IN  /\ pc = "idle"
        /\ inst' = after.inst
        /\ dev' = after.dev
        /\ srq' = SrqAfter(inst, inst', srq)
        /\ call' = Called(name, ch, value, ops,
                          read_write_ret(value, DevReply(inst, dev, query)))
        /\ UNCHANGED <<dvm, log_data, pc, loc, trace, outcome, pre, runs,
                       last_timeout>>

\* a method that hands its arguments to Command.read_write when the flag
\* of global_input_values is set and returns 'NA' otherwise
Gated(flag, name, ch, query, write, val, value) ==
    IF flag
    THEN Accessor(name, ch, query, write, val, value, TRUE)
    ELSE /\ pc = "idle"
         /\ call' = Called(name, ch, value, <<>>, Ret("reply", NA))
         /\ UNCHANGED <<inst, srq, dev, dvm, log_data, pc, loc, trace,
                        outcome, pre, runs, last_timeout>>

\* arguments given to Trigger.dvm_level and Trigger.dvm_hysteresis: 1.0, 30.0
DvmInputs == {None, PyFloat(10000), PyFloat(300000)}

\* Trigger.dvm_level(set_dvm_level)
DvmLevel(set_dvm_level) ==
    /\ Gated(dvm, "dvm_level", 0, "TRIG:ACQ:LEV:DVM?", "TRIG:ACQ:LEV:DVM",
             validate_dvm(set_dvm_level), set_dvm_level)
    /\ trig' = IF Refreshed(call'.ops)
               THEN [trig EXCEPT !["dvm_level"] = PyFloat(dev'.dvm_level)]
               ELSE trig
    /\ UNCHANGED <<log_settings, ch_set, caps>>

\* Trigger.dvm_hysteresis(set_dvm_hysteresis)
DvmHysteresis(set_dvm_hysteresis) ==
    /\ Gated(dvm, "dvm_hysteresis", 0,
             "TRIG:ACQ:HYST:DVM?", "TRIG:ACQ:HYST:DVM",
             validate_dvm(set_dvm_hysteresis), set_dvm_hysteresis)
    /\ trig' = IF Refreshed(call'.ops)
               THEN [trig EXCEPT !["dvm_hysteresis"] =
                        PyFloat(dev'.dvm_hysteresis)]
               ELSE trig
    /\ UNCHANGED <<log_settings, ch_set, caps>>

\* arguments given to Trigger.dvm_slope
SlopeInputs == {None, PyStr(<<"n", "e", "g">>), PyStr(<<"x", "y", "z">>)}

\* Trigger.dvm_slope(set_dvm_slope)
DvmSlope(set_dvm_slope) ==
    /\ Gated(dvm, "dvm_slope", 0, "TRIG:ACQ:SLOP:DVM?", "TRIG:ACQ:SLOP:DVM",
             validate_slope(set_dvm_slope), set_dvm_slope)
    /\ trig' = IF Refreshed(call'.ops)
               THEN [trig EXCEPT !["dvm_slope"] = PyStr(dev'.dvm_slope)]
               ELSE trig
    /\ UNCHANGED <<log_settings, ch_set, caps>>

\* arguments given to Channel.impedance: 0.5, 2.0
ImpedanceInputs == {None, PyFloat(5000), PyFloat(20000)}

\* Channel.impedance(set_impedance) of channel c; dev.ch2 exists only when
\* Device created it
Impedance(c, set_impedance) ==
    /\ c = 2 => caps.ch2_attr
    /\ Gated(caps.expanded_features, "impedance", c, "RES?", "RES",
             validate_impedance(set_impedance), set_impedance)
    /\ ch_set' = IF Refreshed(call'.ops)
                 THEN [ch_set EXCEPT ![c].impedance = PyFloat(dev'.res)]
                 ELSE ch_set
    /\ UNCHANGED <<trig, log_settings, caps>>

\* Display.show_ch2: one write when Display holds the ch2 flag, else nothing
ShowCh2 ==
    /\ pc = "idle"
    /\ dev' = IF caps.has_ch2 /\ HasCh2(caps.model)
              THEN [dev EXCEPT !.disp_chan = 2] ELSE dev
    /\ call' = Called("show_ch2", 0, None,
                      IF caps.has_ch2
                      THEN <<BusOp("write", "DISP:CHAN 2", None)>>
                      ELSE <<>>,
                      Ret("None", None))
    /\ UNCHANGED <<inst, srq, dvm, trig, log_data, pc, loc, trace, outcome,
                   pre, runs, log_settings, ch_set, last_timeout, caps>>

\* Device(visa_addr) constructed for a second instrument, of the given
\* model, in the same process: lines 100-106 overwrite the module-level
\* global_input_values; its bus traffic goes to the other instrument
ConstructDevice(model) ==
    /\ pc = "idle"
    /\ dvm' = HasDvm(model)
    /\ caps' = [caps EXCEPT !.ch2 = HasCh2(model),
                            !.expanded_features = HasExpanded(model)]
    /\ UNCHANGED <<inst, srq, trig, log_data, pc, loc, trace, outcome, pre,
                   runs, dev, log_settings, ch_set, call, last_timeout>>

\* arguments given to Status.opr_enable_reg
RegInputs == {None, PyInt(0), PyInt(40000), PyList}

\* Status.opr_enable_reg(reg_value)
OprEnableReg(reg_value) ==
    /\ Accessor("opr_enable_reg", 0, ":STAT:OPER:ENAB?", ":STAT:OPER:ENAB",
                validate_register_16(reg_value), reg_value, FALSE)
    /\ UNCHANGED <<trig, log_settings, ch_set, caps>>

\* arguments given to Log.sample_points
PointInputs == {None, PyInt(3), PyInt(5000), PyStr(<<"m">>)}

\* Log.sample_points(set_sample_points)
SamplePoints(set_sample_points) ==
    /\ Accessor("sample_points", 0, "SENS:SWE:POIN?", "SENS:SWE:POIN",
                validate_sample_points(set_sample_points),
                set_sample_points, TRUE)
    /\ log_settings' =
          IF Refreshed(call'.ops)
          THEN [log_settings EXCEPT !.sample_points = dev'.points]
          ELSE log_settings
    /\ UNCHANGED <<trig, ch_set, caps>>

\* arguments given to Log.integration_time, in sampling periods
TintInputs == {None, PyFloat(0), PyFloat(18), PyFloat(20), PyList}

\* Log.integration_time(set_integration_time)
IntegrationTime(set_integration_time) ==
    /\ Accessor("integration_time", 0, "SENS:SWE:TINT?", "SENS:SWE:TINT",
                validate_integration_time(set_integration_time),
                set_integration_time, TRUE)
    /\ log_settings' =
          IF Refreshed(call'.ops)
          THEN [log_settings EXCEPT !.integration_time = dev'.tint]
          ELSE log_settings
    /\ UNCHANGED <<trig, ch_set, caps>>

\* the sweep settings *RST gives the instrument: 2048 points of 15.6 us
rst_values == [points |-> 2048, tint |-> 1]

\* Common.rst: *RST puts the sweep settings back to their reset values,
\* Common.cls clears the event registers; no cache is touched
CommonRst ==
    /\ pc = "idle"
    /\ dev' = [dev EXCEPT !.points = rst_values.points,
                          !.tint = rst_values.tint]
    /\ inst' = [inst EXCEPT !.event = 0]
    /\ srq' = SrqAfter(inst, inst', srq)
    /\ call' = Called("rst", 0, None,
                      <<BusOp("write", "*RST", None),
                        BusOp("write", "*CLS", None)>>,
                      Ret("None", None))
    /\ UNCHANGED <<dvm, trig, log_data, pc, loc, trace, outcome, pre, runs,
                   log_settings, ch_set, last_timeout, caps>>

\* arguments given to Trigger.source
SourceInputs == {None, PyInt(1), PyStr(<<"B", "u", "s">>),
                 PyStr(<<"t">>), PyStr(<<>>), PyStr(<<"x", "y", "z">>)}

\* Trigger.source(set_source)
TriggerSource(set_source) ==
    /\ Accessor("source", 0, "TRIG:ACQ:SOUR?", "TRIG:ACQ:SOUR",
                validate_source(set_source), set_source, TRUE)
    /\ trig' = IF Refreshed(call'.ops)
               THEN [trig EXCEPT !["source"] = inst'.source]
               ELSE trig
    /\ UNCHANGED <<log_settings, ch_set, caps>>

\* arguments given to Channel.voltage and Channel.current: 0.0, 1.0, 20.0
ChannelInputs == {None, PyFloat(0), PyFloat(10000), PyFloat(200000), PyList}

\* the query Channel.current sends on each channel
current_query == <<"CURR?", "CURR?">>

\* current_query with a query of its own for channel 2
current_query_own == <<"CURR?", "CURR2?">>

\* Channel.voltage(set_voltage) of channel c: the validator's result is
\* dropped and read_write gets validator = None
ChannelVoltage(c, set_voltage) ==
    /\ c = 2 => caps.ch2_attr
    /\ Accessor("voltage", c,
                IF c = 1 THEN "VOLT?" ELSE "VOLT2?",
                IF c = 1 THEN "VOLT" ELSE "VOLT2",
                "None", set_voltage, TRUE)
    /\ ch_set' =
          IF Refreshed(call'.ops)
          THEN [ch_set EXCEPT ![c].voltage = dev'.volt[c]]
          ELSE ch_set
    /\ UNCHANGED <<trig, log_settings, caps>>

\* Channel.current(set_current) of channel c
ChannelCurrent(c, set_current) ==
    /\ c = 2 => caps.ch2_attr
    /\ Accessor("current", c, current_query[c],
                IF c = 1 THEN "CURR" ELSE "CURR2",
                "None", set_current, TRUE)
    /\ ch_set' =
          IF Refreshed(call'.ops)
          THEN [ch_set EXCEPT ![c].current =
                    DevReply(inst', dev', current_query[c]).i]
          ELSE ch_set
    /\ UNCHANGED <<trig, log_settings, caps>>

----------------------------------------------------------------------------
(* Floating point and the seconds axis *)

\* significand bits of the floating point format (IEEE double has 53)
FloatPrec == 5

RECURSIVE BitLen(_)
BitLen(x) == IF x = 0 THEN 0 ELSE 1 + BitLen(x \div 2)

\* round a positive integer to FloatPrec significant bits, ties to even
RoundP(x) ==
    IF BitLen(x) <= FloatPrec THEN x
    ELSE LET sh == BitLen(x) - FloatPrec
             q  == x \div 2^sh
             r  == x % 2^sh
             up == r > 2^(sh - 1) \/ (r = 2^(sh - 1) /\ q % 2 = 1)
         IN  (IF up THEN q + 1 ELSE q) * 2^sh

\* float * float, both counted in the same unit
fmul(a, n) == RoundP(a * n)

\* guard bits carried by a division before it is rounded
DivGuard == FloatPrec + 2

\* float / float: the correctly rounded quotient in units of
\* 2^-(DivGuard + 1); the last bit of the unrounded quotient is sticky
fdiv(a, b) ==
    LET x == (a * 2^DivGuard) \div b
        sticky == IF (a * 2^DivGuard) % b = 0 THEN 0 ELSE 1
    IN  RoundP(2 * x + sticky)

\* ceil of a value counted in units of 2^-(DivGuard + 1)
ceil(q) == (q + 2^(DivGuard + 1) - 1) \div 2^(DivGuard + 1)

\* np.arange(0, stop, step): ceil((stop - 0) / step) elements 0 + i * step
arange(stop, step) ==
    [i \in 1..ceil(fdiv(stop, step)) |-> fmul(step, i - 1)]

\* lines 516-520: np.arange(0, integration_time * sample_points,
\* integration_time), times counted in units of the last place of
\* integration_time
seconds_axis(cache) ==
    arange(fmul(cache.integration_time, cache.sample_points),
           cache.integration_time)

----------------------------------------------------------------------------
(* The ASCII array of a fetch reply *)

\* sample values, counted in hundredths, and the text the instrument sends
\* for each
SampleText(v) ==
    CASE v = 100    -> <<"1", ".", "0">>
      [] v = 250    -> <<"2", ".", "5">>
      [] v = 0 - 325 -> <<"-", "3", ".", "2", "5">>

SampleValues == {100, 250, 0 - 325}

\* the reply to FETC:ARR:...?: the samples separated by commas
RECURSIVE FormatArray(_)
FormatArray(samples) ==
    IF Len(samples) = 1 THEN SampleText(Head(samples))
    ELSE SampleText(Head(samples)) \o <<",">> \o FormatArray(Tail(samples))

\* str.split(sep)
RECURSIVE split(_, _)
split(str, sep) ==
    IF \A i \in 1..Len(str) : str[i] # sep THEN <<str>>
    ELSE LET i == CHOOSE j \in 1..Len(str) :
                      str[j] = sep /\ \A k \in 1..(j - 1) : str[k] # sep
         IN  <<SubSeq(str, 1, i - 1)>> \o split(SubSeq(str, i + 1, Len(str)), sep)

Digit(c) ==
    CASE c = "0" -> 0 [] c = "1" -> 1 [] c = "2" -> 2 [] c = "3" -> 3
      [] c = "4" -> 4 [] c = "5" -> 5 [] c = "6" -> 6 [] c = "7" -> 7
      [] c = "8" -> 8 [] c = "9" -> 9

RECURSIVE Digits(_)
Digits(str) ==
    IF Len(str) = 0 THEN 0
    ELSE 10 * Digits(SubSeq(str, 1, Len(str) - 1)) + Digit(str[Len(str)])

\* the float a decimal field denotes, in hundredths (at most two decimals)
ParseUnsigned(str) ==
    LET parts == split(str, ".")
        frac  == IF Len(parts) > 1 THEN parts[2] ELSE <<>>
    IN  100 * Digits(parts[1])
        + (IF Len(frac) = 0 THEN 0
           ELSE IF Len(frac) = 1 THEN 10 * Digits(frac) ELSE Digits(frac))

\* the float of a field with its sign dropped
ParseFloat_abs(str) ==
    IF Len(str) > 0 /\ str[1] = "-" THEN ParseUnsigned(Tail(str))
    ELSE ParseUnsigned(str)

\* np.array(..., dtype='f') on one field
ParseFloat(str) ==
    IF Len(str) > 0 /\ str[1] = "-" THEN 0 - ParseUnsigned(Tail(str))
    ELSE ParseUnsigned(str)

\* np.array(data.split(','), dtype='f')
ParseArray(data) ==
    LET fields == split(data, ",")
    IN  [i \in 1..Len(fields) |-> ParseFloat(fields[i])]

----------------------------------------------------------------------------
(* Log.start_meas_sample *)

EmptyDict == [k \in {} |-> <<>>]

Put(d, k, v) == [x \in DOMAIN d \cup {k} |-> IF x = k THEN v ELSE d[x]]

Goto(l) == pc' = l

\* what a new call finds: if the call before it was left by the timeout of
\* wait_for_srq (line 499), the registers that call had found
AfterRun ==
    IF runs > 0 /\ trace[Len(trace)][1] = "wait_for_srq"
    THEN [timed_out |-> TRUE, pre |-> pre]
    ELSE last_timeout

\* lines 457-459 without the reset of log_data
Start_keep(bus_triggered) ==
    /\ pc = "idle"
    /\ runs < MaxRuns
    /\ runs' = runs + 1
    /\ outcome' = "none"
    /\ pre' = [ptr |-> inst.ptr, ntr |-> inst.ntr,
               enable |-> inst.enable, sre |-> inst.sre]
    /\ loc' = [bus_triggered |-> bus_triggered, opr_ptr_reg |-> 0,
               opr_ntr_reg |-> 0, opr_enable_reg |-> 0, event_reg |-> 0]
    /\ inst' = BusQuery(inst, "STAT:OPER?")
    /\ srq' = SrqAfter(inst, inst', srq)
    /\ trace' = <<<<"STAT:OPER?", NoArg>>>>
    /\ Goto("read_ptr")
    /\ call' = NoCall
    /\ last_timeout' = AfterRun
    /\ UNCHANGED <<dvm, trig, log_data, settings>>

\* lines 457-459: reset log_data, read (and so clear) the event register
Start(bus_triggered) ==
    /\ pc = "idle"
    /\ runs < MaxRuns
    /\ runs' = runs + 1
    /\ log_data' = EmptyDict
    /\ outcome' = "none"
    /\ pre' = [ptr |-> inst.ptr, ntr |-> inst.ntr,
               enable |-> inst.enable, sre |-> inst.sre]
    /\ loc' = [bus_triggered |-> bus_triggered, opr_ptr_reg |-> 0,
               opr_ntr_reg |-> 0, opr_enable_reg |-> 0, event_reg |-> 0]
    /\ inst' = BusQuery(inst, "STAT:OPER?")
    /\ srq' = SrqAfter(inst, inst', srq)
    /\ trace' = <<<<"STAT:OPER?", NoArg>>>>
    /\ Goto("read_ptr")
    /\ call' = NoCall
    /\ last_timeout' = AfterRun
    /\ UNCHANGED <<dvm, trig, settings>>

\* line 461
ReadPtr ==
    /\ pc = "read_ptr"
    /\ loc' = [loc EXCEPT !.opr_ptr_reg = BusReply(inst, ":STAT:OPER:PTR?")]
    /\ Query(":STAT:OPER:PTR?")
    /\ Goto("read_ntr")
    /\ UNCHANGED <<dvm, trig, log_data, outcome, pre, runs,
                   settings, call, last_timeout>>

\* line 462
ReadNtr ==
    /\ pc = "read_ntr"
    /\ loc' = [loc EXCEPT !.opr_ntr_reg = BusReply(inst, ":STAT:OPER:NTR?")]
    /\ Query(":STAT:OPER:NTR?")
    /\ Goto("read_enable")
    /\ UNCHANGED <<dvm, trig, log_data, outcome, pre, runs,
                   settings, call, last_timeout>>

\* line 463 taking the mask found before a timed-out call instead of the
\* instrument's reply
ReadEnable_remembered ==
    /\ pc = "read_enable"
    /\ loc' = [loc EXCEPT
                 !.opr_enable_reg = IF last_timeout.timed_out
                                    THEN last_timeout.pre.enable
                                    ELSE BusReply(inst, ":STAT:OPER:ENAB?")]
    /\ Query(":STAT:OPER:ENAB?")
    /\ Goto("adjust_ptr")
    /\ UNCHANGED <<dvm, trig, log_data, outcome, pre, runs,
                   settings, call, last_timeout>>

\* line 463
ReadEnable ==
    /\ pc = "read_enable"
    /\ loc' = [loc EXCEPT
                 !.opr_enable_reg = BusReply(inst, ":STAT:OPER:ENAB?")]
    /\ Query(":STAT:OPER:ENAB?")
    /\ Goto("adjust_ptr")
    /\ UNCHANGED <<dvm, trig, log_data, outcome, pre, runs,
                   settings, call, last_timeout>>

\* lines 476-477: remove WTG from PTR if present
AdjustPtr ==
    /\ pc = "adjust_ptr"
    /\ IF HasBit(loc.opr_ptr_reg, wait_for_trig)
       THEN opr_ptr_reg(loc.opr_ptr_reg - wait_for_trig)
       ELSE UNCHANGED <<inst, srq, trace>>
    /\ Goto("adjust_ntr")
    /\ UNCHANGED <<dvm, trig, log_data, loc, outcome, pre, runs,
                   settings, call, last_timeout>>

\* lines 480-481 writing NTR whether or not WTG is present
AdjustNtr_always ==
    /\ pc = "adjust_ntr"
    /\ opr_ntr_reg(SetBit(loc.opr_ntr_reg, wait_for_trig))
    /\ Goto("set_enable")
    /\ UNCHANGED <<dvm, trig, log_data, loc, outcome, pre, runs,
                   settings, call, last_timeout>>

\* lines 480-481: add WTG to NTR if not present
AdjustNtr ==
    /\ pc = "adjust_ntr"
    /\ IF ~HasBit(loc.opr_ntr_reg, wait_for_trig)
       THEN opr_ntr_reg(loc.opr_ntr_reg + wait_for_trig)
       ELSE UNCHANGED <<inst, srq, trace>>
    /\ Goto("set_enable")
    /\ UNCHANGED <<dvm, trig, log_data, loc, outcome, pre, runs,
                   settings, call, last_timeout>>

\* line 484 adding the WTG bit to the saved mask instead of replacing it
SetEnable_or ==
    /\ pc = "set_enable"
    /\ opr_enable_reg(SetBit(loc.opr_enable_reg, wait_for_trig))
    /\ Goto("set_sre")
    /\ UNCHANGED <<dvm, trig, log_data, loc, outcome, pre, runs,
                   settings, call, last_timeout>>

\* line 484
SetEnable ==
    /\ pc = "set_enable"
    /\ opr_enable_reg(wait_for_trig)
    /\ Goto("set_sre")
    /\ UNCHANGED <<dvm, trig, log_data, loc, outcome, pre, runs,
                   settings, call, last_timeout>>

\* line 487 followed directly by line 491, without the barrier of line 489
SetSre_nobarrier ==
    /\ pc = "set_sre"
    /\ sre(sre_status_bit)
    /\ Goto("init")
    /\ UNCHANGED <<dvm, trig, log_data, loc, outcome, pre, runs,
                   settings, call, last_timeout>>

\* line 487
SetSre ==
    /\ pc = "set_sre"
    /\ sre(sre_status_bit)
    /\ Goto("wai")
    /\ UNCHANGED <<dvm, trig, log_data, loc, outcome, pre, runs,
                   settings, call, last_timeout>>

\* line 489: Common.wait
Wai ==
    /\ pc = "wai"
    /\ Write("*WAI", NoArg)
    /\ Goto("init")
    /\ UNCHANGED <<dvm, trig, log_data, loc, outcome, pre, runs,
                   settings, call, last_timeout>>

\* line 491: Trigger.initialize_meas_trig
InitMeasTrig ==
    /\ pc = "init"
    /\ Write("INIT:NAME ACQ", NoArg)
    /\ Goto("bus_trig")
    /\ UNCHANGED <<dvm, trig, log_data, loc, outcome, pre, runs,
                   settings, call, last_timeout>>

\* lines 495-496 triggering whatever the flag says
BusTrig_always ==
    /\ pc = "bus_trig"
    /\ Write("TRIG:ACQ", NoArg)
    /\ Goto("wait")
    /\ UNCHANGED <<dvm, trig, log_data, loc, outcome, pre, runs,
                   settings, call, last_timeout>>

\* lines 495-496: Trigger.generate_bus_trig when bus_triggered
BusTrig ==
    /\ pc = "bus_trig"
    /\ IF loc.bus_triggered
       THEN Write("TRIG:ACQ", NoArg)
       ELSE UNCHANGED <<inst, srq, trace>>
    /\ Goto("wait")
    /\ UNCHANGED <<dvm, trig, log_data, loc, outcome, pre, runs,
                   settings, call, last_timeout>>

SrqTimeout == 10000

\* line 499: wait_for_srq returns on a service request; the serial poll
\* that confirms it clears the request
WaitReturn ==
    /\ pc = "wait"
    /\ srq
    /\ srq' = FALSE
    /\ trace' = Append(trace, <<"wait_for_srq", SrqTimeout>>)
    /\ Goto("clear_sre")
    /\ UNCHANGED <<inst, dvm, trig, log_data, loc, outcome, pre, runs,
                   settings, call, last_timeout>>

\* line 499 with the SRE cleared on the way out of a timeout
WaitTimeout_cleanup ==
    /\ pc = "wait"
    /\ ~srq
    /\ inst' = BusWrite(inst, "*SRE", 0)
    /\ srq' = SrqAfter(inst, inst', srq)
    /\ trace' = trace \o << <<"wait_for_srq", SrqTimeout>>, <<"*SRE", 0>> >>
    /\ outcome' = "raised"
    /\ Goto("idle")
    /\ UNCHANGED <<dvm, trig, log_data, loc, pre, runs,
                   settings, call, last_timeout>>

\* line 499: wait_for_srq raises on timeout; the exception leaves
\* start_meas_sample
WaitTimeout ==
    /\ pc = "wait"
    /\ ~srq
    /\ trace' = Append(trace, <<"wait_for_srq", SrqTimeout>>)
    /\ outcome' = "raised"
    /\ Goto("idle")
    /\ UNCHANGED <<inst, srq, dvm, trig, log_data, loc, pre, runs,
                   settings, call, last_timeout>>

\* line 500 left out
ClearSre_skip ==
    /\ pc = "clear_sre"
    /\ Goto("read_event")
    /\ UNCHANGED <<inst, srq, trace, dvm, trig, log_data, loc, outcome, pre,
                   runs,
                   settings, call, last_timeout>>

\* line 500
ClearSre ==
    /\ pc = "clear_sre"
    /\ sre(0)
    /\ Goto("read_event")
    /\ UNCHANGED <<dvm, trig, log_data, loc, outcome, pre, runs,
                   settings, call, last_timeout>>

\* line 502
ReadEvent ==
    /\ pc = "read_event"
    /\ loc' = [loc EXCEPT !.event_reg = BusReply(inst, "STAT:OPER?")]
    /\ Query("STAT:OPER?")
    /\ Goto("fetch")
    /\ UNCHANGED <<dvm, trig, log_data, outcome, pre, runs,
                   settings, call, last_timeout>>

\* lines 504-515 with the CURR query repeated in the VOLT branch
FetchQuery_copied(sense) ==
    IF StrIn(sense, Quoted(CURR)) THEN <<"FETC:ARR:CURR?", "current">>
    ELSE IF StrIn(sense, Quoted(VOLT)) THEN <<"FETC:ARR:CURR?", "voltage">>
    ELSE <<"FETC:ARR:DVM?", "voltage">>

\* lines 504-515: the fetch query and the log_data key chosen by the sense
FetchQuery(sense) ==
    IF StrIn(sense, Quoted(CURR)) THEN <<"FETC:ARR:CURR?", "current">>
    ELSE IF StrIn(sense, Quoted(VOLT)) THEN <<"FETC:ARR:VOLT?", "voltage">>
    ELSE <<"FETC:ARR:DVM?", "voltage">>

\* line 503 testing for any event instead of the WTG bit
DataReady_any(event_reg) == event_reg # 0

\* line 503
DataReady(event_reg) == HasBit(event_reg, wait_for_trig)

\* lines 503-522 without the seconds axis of lines 516-520
Fetch_noaxis ==
    /\ pc = "fetch"
    /\ IF DataReady(loc.event_reg)
       THEN LET fq == FetchQuery(trig["sense"]) IN
            /\ inst.acq = "done"
            /\ Query(fq[1])
            /\ log_data' = Put(log_data, fq[2], ParseArray(dev.data))
       ELSE UNCHANGED <<inst, srq, trace, log_data>>
    /\ Goto("restore_ptr")
    /\ UNCHANGED <<dvm, trig, loc, outcome, pre, runs,
                   settings, call, last_timeout>>

\* lines 503-522 when the fetch query is answered, or not issued at all
Fetch ==
    /\ pc = "fetch"
    /\ IF DataReady(loc.event_reg)
       THEN LET fq == FetchQuery(trig["sense"]) IN
            /\ inst.acq = "done"
            /\ Query(fq[1])
            /\ log_data' = Put(Put(log_data, fq[2], ParseArray(dev.data)),
                               "seconds", seconds_axis(log_settings))
       ELSE UNCHANGED <<inst, srq, trace, log_data>>
    /\ Goto("restore_ptr")
    /\ UNCHANGED <<dvm, trig, loc, outcome, pre, runs,
                   settings, call, last_timeout>>

\* lines 505/509/513 when the instrument has no acquisition to return:
\* the query times out and the exception leaves start_meas_sample
FetchTimeout ==
    /\ pc = "fetch"
    /\ DataReady(loc.event_reg)
    /\ inst.acq # "done"
    /\ Query(FetchQuery(trig["sense"])[1])
    /\ outcome' = "raised"
    /\ Goto("idle")
    /\ UNCHANGED <<dvm, trig, log_data, loc, pre, runs,
                   settings, call, last_timeout>>

\* line 525
RestorePtr ==
    /\ pc = "restore_ptr"
    /\ opr_ptr_reg(loc.opr_ptr_reg)
    /\ Goto("restore_ntr")
    /\ UNCHANGED <<dvm, trig, log_data, loc, outcome, pre, runs,
                   settings, call, last_timeout>>

\* line 526
RestoreNtr ==
    /\ pc = "restore_ntr"
    /\ opr_ntr_reg(loc.opr_ntr_reg)
    /\ Goto("restore_enable")
    /\ UNCHANGED <<dvm, trig, log_data, loc, outcome, pre, runs,
                   settings, call, last_timeout>>

\* line 527, then the method returns
RestoreEnable ==
    /\ pc = "restore_enable"
    /\ opr_enable_reg(loc.opr_enable_reg)
    /\ outcome' = "returned"
    /\ Goto("idle")
    /\ UNCHANGED <<dvm, trig, log_data, loc, pre, runs,
                   settings, call, last_timeout>>

----------------------------------------------------------------------------
(* The instrument acting on its own *)

\* an INT or EXT acquisition trigger fires while the instrument waits for it
InstrTrigger ==
    /\ inst.acq = "armed"
    /\ inst.source # "BUS"
    /\ inst' = Fire(inst)
    /\ srq' = SrqAfter(inst, inst', srq)
    /\ UNCHANGED <<dvm, trig, log_data, pc, loc, trace, outcome, pre, runs,
                   settings, call, last_timeout>>

\* the output crosses into constant current while the driver waits: bit 10
\* is latched when a transition filter passes it
OtherOperEvent ==
    /\ pc = "wait"
    /\ ~HasBit(inst.event, other_oper_bit)
    /\ HasBit(inst.ptr, other_oper_bit) \/ HasBit(inst.ntr, other_oper_bit)
    /\ inst' = [inst EXCEPT !.event = SetBit(inst.event, other_oper_bit)]
    /\ srq' = SrqAfter(inst, inst', srq)
    /\ UNCHANGED <<dvm, trig, log_data, pc, loc, trace, outcome, pre, runs,
                   settings, call, last_timeout>>

\* a service request reaches the waiting controller although the WTG event
\* was not latched
SpuriousSrq ==
    /\ pc = "wait"
    /\ ~srq
    /\ srq' = TRUE
    /\ UNCHANGED <<inst, dvm, trig, log_data, pc, loc, trace, outcome, pre,
                   runs,
                   settings, call, last_timeout>>

----------------------------------------------------------------------------
(* Specifications *)

\* the instrument's settings and samples in the spec's end-to-end scenario
\* (5 points, integration time 16 units, reply "1.0,2.5,-3.25")
DefaultDev ==
    [points |-> 5, tint |-> 16, samples |-> <<100, 250, 0 - 325>>,
     data |-> FormatArray(<<100, 250, 0 - 325>>),
     volt |-> <<0, 0>>, curr |-> <<0, 0>>,
     dvm_level |-> 0, dvm_hysteresis |-> 0, dvm_slope |-> <<"P", "O", "S">>,
     res |-> 0, disp_chan |-> 1]

\* Log.__init__ and Channel.__init__ fill their caches from the instrument
InitSettings(d) ==
    /\ dev = d
    /\ log_settings = [sample_points |-> d.points,
                       integration_time |-> d.tint]
    /\ ch_set = [c \in 1..2 |->
                   [voltage |-> d.volt[c],
                    current |-> d.curr[1],
                    impedance |-> IF caps.expanded_features
                                  THEN PyFloat(d.res) ELSE NA]]
    /\ call = NoCall

\* the two-channel models, without and with DVM input
RunModels == {"66319B", "66319D"}

\* Trigger.__init__ fills its cache from the instrument; the DVM getters
\* return 'NA' without DVM
TrigSettings(i, d) ==
    [sense |-> Quoted(i.func), settings |-> <<>>, source |-> i.source,
     dvm_level |-> IF dvm THEN PyFloat(d.dvm_level) ELSE NA,
     dvm_hysteresis |-> IF dvm THEN PyFloat(d.dvm_hysteresis) ELSE NA,
     dvm_slope |-> IF dvm THEN PyStr(d.dvm_slope) ELSE NA]

\* Device.__init__ / Log.__init__ / Trigger.__init__ against an instrument
\* whose operation status registers hold values of R
InitWith(R) ==
    /\ \E m \in RunModels : Connect(m)
    /\ InitSettings(DefaultDev)
    /\ inst \in [ptr : R, ntr : R, enable : R, sre : SreValues,
                 event : {0, wait_for_trig}, acq : {"idle"},
                 func : SenseFunctions(dvm), source : {"INT", "BUS"}]
    /\ srq = MSS(inst)
    /\ trig = TrigSettings(inst, dev)
    /\ log_data = EmptyDict
    /\ pc = "idle"
    /\ loc = [bus_triggered |-> FALSE, opr_ptr_reg |-> 0, opr_ntr_reg |-> 0,
              opr_enable_reg |-> 0, event_reg |-> 0]
    /\ trace = <<>>
    /\ outcome = "none"
    /\ pre = [ptr |-> inst.ptr, ntr |-> inst.ntr, enable |-> inst.enable,
              sre |-> inst.sre]
    /\ runs = 0
    /\ last_timeout = [timed_out |-> FALSE, pre |-> pre]

Init == InitWith(RegValues)

InitMock == InitWith(RegValues16)

Next ==
    \/ \E b \in BOOLEAN : Start(b)
    \/ ReadPtr \/ ReadNtr \/ ReadEnable
    \/ AdjustPtr \/ AdjustNtr \/ SetEnable \/ SetSre
    \/ Wai \/ InitMeasTrig \/ BusTrig
    \/ WaitReturn \/ WaitTimeout
    \/ ClearSre \/ ReadEvent \/ Fetch \/ FetchTimeout
    \/ RestorePtr \/ RestoreNtr \/ RestoreEnable
    \/ InstrTrigger \/ OtherOperEvent \/ SpuriousSrq

Spec == Init /\ [][Next]_vars

\* the same driver against a register store of 16-bit unsigned values
SpecMock == InitMock /\ [][Next]_vars

----------------------------------------------------------------------------
(* Acquisition runs with the sweep settings and the samples varied, and
   with the sense changed between runs *)

MaxPoints == 8

MaxSamples == 2

\* integration times: every significand of the floating point format
TintValues == 2^(FloatPrec - 1) .. (2^FloatPrec - 1)

SampleArrays ==
    UNION {[1..k -> SampleValues] : k \in 1..MaxSamples}
        \cup {DefaultDev.samples}

\* either the sweep settings or the samples differ from the default
DataDevs ==
    {[DefaultDev EXCEPT !.points = n, !.tint = t] :
        n \in 1..MaxPoints, t \in TintValues}
    \cup {[DefaultDev EXCEPT !.samples = a, !.data = FormatArray(a)] :
        a \in SampleArrays}

\* construction against an instrument with one register triple, the
\* settings and samples of one of devs and a model of models
InitModels(devs, models) ==
    /\ \E m \in models : Connect(m)
    /\ \E d \in devs : InitSettings(d)
    /\ inst \in [ptr : {32767}, ntr : {0}, enable : {5}, sre : {16},
                 event : {0}, acq : {"idle"},
                 func : SenseFunctions(dvm), source : {"INT", "BUS"}]
    /\ srq = MSS(inst)
    /\ trig = TrigSettings(inst, dev)
    /\ log_data = EmptyDict
    /\ pc = "idle"
    /\ loc = [bus_triggered |-> FALSE, opr_ptr_reg |-> 0, opr_ntr_reg |-> 0,
              opr_enable_reg |-> 0, event_reg |-> 0]
    /\ trace = <<>>
    /\ outcome = "none"
    /\ pre = [ptr |-> inst.ptr, ntr |-> inst.ntr, enable |-> inst.enable,
              sre |-> inst.sre]
    /\ runs = 0
    /\ last_timeout = [timed_out |-> FALSE, pre |-> pre]

InitRuns(devs) == InitModels(devs, RunModels)

InitData == InitRuns(DataDevs)

SpecData == InitData /\ [][Next]_vars

InitSense == InitRuns({DefaultDev})

NextSense ==
    \/ Next
    \/ \E s \in SenseInputs : TriggerSense(s)

SpecSense == InitSense /\ [][NextSense]_vars

----------------------------------------------------------------------------
(* Accessor calls between runs *)

NextAcc ==
    \/ \E v \in RegInputs : OprEnableReg(v)
    \/ \E v \in PointInputs : SamplePoints(v)
    \/ \E v \in SourceInputs : TriggerSource(v)
    \/ \E c \in 1..2, v \in ChannelInputs : ChannelVoltage(c, v)
    \/ \E c \in 1..2, v \in ChannelInputs : ChannelCurrent(c, v)
    \/ \E s \in SenseInputs : TriggerSense(s)

\* construction against a model without DVM input
InitAcc ==
    /\ InitSense
    /\ ~dvm
    /\ inst.func = CURR
    /\ inst.source = "INT"

SpecAcc == InitAcc /\ [][NextAcc]_vars

\* the sweep settings set, read and reset between runs
NextLog ==
    \/ \E v \in PointInputs : SamplePoints(v)
    \/ \E v \in TintInputs : IntegrationTime(v)
    \/ CommonRst

SpecLog == InitAcc /\ [][NextLog]_vars

\* the capability-gated methods on every model, and further Device objects
InitCap ==
    /\ InitModels({DefaultDev}, Models)
    /\ inst.func = CURR
    /\ inst.source = "INT"

NextCap ==
    \/ \E v \in DvmInputs : DvmLevel(v)
    \/ \E v \in DvmInputs : DvmHysteresis(v)
    \/ \E v \in SlopeInputs : DvmSlope(v)
    \/ \E c \in 1..2, v \in ImpedanceInputs : Impedance(c, v)
    \/ ShowCh2
    \/ \E m \in Models : ConstructDevice(m)

SpecCap == InitCap /\ [][NextCap]_vars

----------------------------------------------------------------------------
(* Observations on the trace of a run *)

FetchCommands == {"FETC:ARR:CURR?", "FETC:ARR:VOLT?", "FETC:ARR:DVM?"}

Count(t, cmd) == Cardinality({i \in 1..Len(t) : t[i][1] = cmd})

Fetches(t) == {i \in 1..Len(t) : t[i][1] \in FetchCommands}

\* the run ended and control is back with the caller
Ended == pc = "idle" /\ runs > 0

\* the run ended because wait_for_srq raised
TimedOut == Ended /\ trace[Len(trace)][1] = "wait_for_srq"

\* the event register was read after the wait (line 502) and acted upon
EventActedOn ==
    /\ Count(trace, "wait_for_srq") = 1
    /\ Count(trace, "STAT:OPER?") = 2
    /\ pc # "fetch"

Restored ==
    /\ inst.ptr = pre.ptr
    /\ inst.ntr = pre.ntr
    /\ inst.enable = pre.enable

----------------------------------------------------------------------------
(* Claims *)

\* C1 (as stated): after a run that returns, with data fetched or on the
\* unexpected-event branch, PTR, NTR and ENABLE equal their pre-call values,
\* for every triple of 16-bit values.
C1_RestoredEvery16Bit == (Ended /\ outcome = "returned") => Restored

\* C1 (amended): the same for every triple of 16-bit values whose ENABLE
\* value is at most 32767, the largest value register_16 lets through.
C1_RestoredWhenEnableValid ==
    (Ended /\ outcome = "returned" /\ pre.enable <= 32767) => Restored

C1_Witness ==
    /\ Ended /\ outcome = "returned"
    /\ pre.ptr = 32767 /\ pre.ntr = 0 /\ pre.enable = 32767
    /\ "current" \in DOMAIN log_data
    /\ Restored

\* C2: from the arming of the trigger until the restoration of ENABLE, the
\* instrument's operation ENABLE register is exactly 32.
C2_EnableIsWtgOnly ==
    pc \in {"bus_trig", "wait", "clear_sre", "read_event", "fetch",
            "restore_ptr", "restore_ntr", "restore_enable"}
        => inst.enable = 32

C2_Witness == pc = "wait" /\ pre.enable = 32767 /\ inst.enable = 32

\* C3: when wait_for_srq times out the call raises, no fetch query was
\* issued and log_data is empty, also when an earlier run had stored data.
C3_TimeoutPropagates ==
    TimedOut => /\ outcome = "raised"
                /\ Fetches(trace) = {}
                /\ log_data = EmptyDict

C3_Witness == TimedOut /\ runs = 2 /\ outcome = "raised"

\* C4: a fetch query is issued exactly when the event register read after
\* the wait has bit 32 set; without the bit the call issues no fetch, leaves
\* log_data empty, returns normally and ends with the three restoration
\* writes of the snapshot.
C4_FetchIffWtgEvent ==
    EventActedOn =>
        /\ (Fetches(trace) # {}) <=> HasBit(loc.event_reg, 32)
        /\ (Ended /\ ~HasBit(loc.event_reg, 32)) =>
              /\ outcome = "returned"
              /\ log_data = EmptyDict
              /\ Len(trace) >= 3
              /\ SubSeq(trace, Len(trace) - 2, Len(trace)) =
                    << <<":STAT:OPER:PTR", loc.opr_ptr_reg>>,
                       <<":STAT:OPER:NTR", loc.opr_ntr_reg>>,
                       <<":STAT:OPER:ENAB", loc.opr_enable_reg>> >>

C4_Witness ==
    /\ Ended /\ EventActedOn
    /\ loc.event_reg = 1024
    /\ outcome = "returned"
    /\ Fetches(trace) = {}

\* the steps of a run that come after the fetch decision
AfterFetch == {"restore_ptr", "restore_ntr", "restore_enable"}

\* C5 (as stated): the fetch query of a run is the one for the sense that
\* Trigger.sense last configured on the instrument, not the one read when
\* the Trigger object was constructed.
C5_FetchFollowsConfiguredSense ==
    pc \in AfterFetch =>
        \A i \in Fetches(trace) :
            trace[i][1] = FetchQuery(Quoted(inst.func))[1]

\* C6: when data is ready, the held sense selects exactly one fetch query
\* and one result key: CURR -> FETC:ARR:CURR? / current, VOLT ->
\* FETC:ARR:VOLT? / voltage, DVM -> FETC:ARR:DVM? / voltage.
C6_FetchSelection ==
    (EventActedOn /\ HasBit(loc.event_reg, 32) /\
     (pc \in AfterFetch \/ outcome = "returned")) =>
        /\ Cardinality(Fetches(trace)) = 1
        /\ \A i \in Fetches(trace) :
             LET cmd == trace[i][1]
                 keys == DOMAIN log_data \ {"seconds"}
             IN  /\ trig["sense"] = Quoted(CURR) =>
                        cmd = "FETC:ARR:CURR?" /\ keys = {"current"}
                 /\ trig["sense"] = Quoted(VOLT) =>
                        cmd = "FETC:ARR:VOLT?" /\ keys = {"voltage"}
                 /\ trig["sense"] = Quoted(DVM) =>
                        cmd = "FETC:ARR:DVM?" /\ keys = {"voltage"}

C6_Witness ==
    /\ Ended /\ outcome = "returned"
    /\ trig["sense"] = Quoted(VOLT)
    /\ Count(trace, "FETC:ARR:VOLT?") = 1
    /\ DOMAIN log_data = {"voltage", "seconds"}

\* C7: between runs log_data holds only what the latest run produced: it is
\* empty, or one measurement key together with seconds; sense CURR with
\* registers (32, 0, 0) and a fired trigger gives exactly {current, seconds}.
C7_ResultFreshness ==
    pc = "idle" =>
        /\ DOMAIN log_data \in {{}, {"current", "seconds"},
                                {"voltage", "seconds"}}
        /\ log_data # EmptyDict =>
              outcome = "returned" /\ Fetches(trace) # {}
        /\ (/\ outcome = "returned" /\ Fetches(trace) # {}
            /\ trig["sense"] = Quoted(CURR)
            /\ pre.ptr = 32 /\ pre.ntr = 0 /\ pre.enable = 0) =>
              DOMAIN log_data = {"current", "seconds"}

C7_Witness ==
    /\ Ended /\ runs = 2 /\ outcome = "returned"
    /\ trig["sense"] = Quoted(CURR)
    /\ pre.ptr = 32 /\ pre.ntr = 0 /\ pre.enable = 0
    /\ DOMAIN log_data = {"current", "seconds"}

IsPrefix(s, t) == Len(s) <= Len(t) /\ SubSeq(t, 1, Len(s)) = s

\* the bus operations of a complete run in the order the claim gives them
StepOrder ==
    << <<"STAT:OPER?", NoArg>>, <<":STAT:OPER:PTR?", NoArg>>,
       <<":STAT:OPER:NTR?", NoArg>>, <<":STAT:OPER:ENAB?", NoArg>> >>
    \o (IF HasBit(loc.opr_ptr_reg, 32)
        THEN << <<":STAT:OPER:PTR", loc.opr_ptr_reg - 32>> >> ELSE <<>>)
    \o (IF ~HasBit(loc.opr_ntr_reg, 32)
        THEN << <<":STAT:OPER:NTR", loc.opr_ntr_reg + 32>> >> ELSE <<>>)
    \o << <<":STAT:OPER:ENAB", 32>>, <<"*SRE", 128>>, <<"*WAI", NoArg>>,
          <<"INIT:NAME ACQ", NoArg>> >>
    \o (IF loc.bus_triggered THEN << <<"TRIG:ACQ", NoArg>> >> ELSE <<>>)
    \o << <<"wait_for_srq", 10000>>, <<"*SRE", 0>>, <<"STAT:OPER?", NoArg>> >>
    \o (IF HasBit(loc.event_reg, 32)
        THEN << <<FetchQuery(trig["sense"])[1], NoArg>> >> ELSE <<>>)
    \o << <<":STAT:OPER:PTR", loc.opr_ptr_reg>>,
          <<":STAT:OPER:NTR", loc.opr_ntr_reg>>,
          <<":STAT:OPER:ENAB", loc.opr_enable_reg>> >>

\* C8: the bus operations of a run occur in the order event read, PTR, NTR,
\* ENABLE reads, PTR and NTR adjustment, ENABLE=32, SRE=128, *WAI, INIT,
\* optional TRIG:ACQ, SRQ wait, SRE=0, event read, optional fetch, PTR, NTR,
\* ENABLE restoration; a run that returns has performed all of them.
C8_StepOrder ==
    runs > 0 =>
        /\ IsPrefix(trace, StepOrder)
        /\ (Ended /\ outcome = "returned") => trace = StepOrder

C8_Witness ==
    /\ Ended /\ outcome = "returned"
    /\ trace = StepOrder
    /\ Len(trace) = 18

BeforeArming == {"read_ptr", "read_ntr", "read_enable", "adjust_ptr",
                 "adjust_ntr", "set_enable", "set_sre", "wai", "init"}

Indices(t, cmd) == {i \in 1..Len(t) : t[i][1] = cmd}

\* C9: a run sends INIT:NAME ACQ exactly once; it sends TRIG:ACQ exactly
\* once, right after arming and right before the SRQ wait, if and only if
\* bus_triggered is true.
C9_TriggerCommands ==
    runs > 0 =>
        /\ Count(trace, "INIT:NAME ACQ") =
              (IF pc \in BeforeArming THEN 0 ELSE 1)
        /\ Count(trace, "TRIG:ACQ") =
              (IF pc \notin BeforeArming \cup {"bus_trig"}
                  /\ loc.bus_triggered THEN 1 ELSE 0)
        /\ \A i \in Indices(trace, "TRIG:ACQ") :
              /\ trace[i - 1][1] = "INIT:NAME ACQ"
              /\ i < Len(trace) => trace[i + 1][1] = "wait_for_srq"
        /\ \A i \in Indices(trace, "wait_for_srq") :
              trace[i - 1][1] \in {"INIT:NAME ACQ", "TRIG:ACQ"}

C9_Witness ==
    /\ Ended /\ outcome = "returned"
    /\ loc.bus_triggered
    /\ Count(trace, "INIT:NAME ACQ") = 1
    /\ Count(trace, "TRIG:ACQ") = 1

\* C10: the service request enable register is 128 from before the arming
\* until wait_for_srq returns, and 0 from then on until the call is left,
\* whatever it was before the call.
C10_SrqEnableWindow ==
    /\ pc \in {"wai", "init", "bus_trig", "wait", "clear_sre"}
          => inst.sre = 128
    /\ (pc \in {"read_event", "fetch"} \cup AfterFetch
        \/ (Ended /\ ~TimedOut))
          => inst.sre = 0

C10_Witness ==
    /\ Ended /\ outcome = "returned"
    /\ pre.sre = 16
    /\ inst.sre = 0

\* the run was left by an exception although no fetch query was issued
RaisedBeforeFetch == Ended /\ outcome = "raised" /\ Fetches(trace) = {}

\* C11: when the SRQ wait times out nothing more is sent: no SRE clear and
\* no restoration, so ENABLE stays 32, NTR keeps bit 32, PTR lacks bit 32 and
\* SRE stays 128.
C11_TimeoutLeavesBusAlone ==
    RaisedBeforeFetch =>
        /\ trace[Len(trace)][1] = "wait_for_srq"
        /\ Count(trace, "*SRE") = 1
        /\ Count(trace, ":STAT:OPER:ENAB") = 1
        /\ inst.enable = 32
        /\ HasBit(inst.ntr, 32)
        /\ ~HasBit(inst.ptr, 32)
        /\ inst.sre = 128

C11_Witness ==
    /\ RaisedBeforeFetch
    /\ pre.ptr = 32 /\ pre.ntr = 0 /\ pre.enable = 32767 /\ pre.sre = 16
    /\ inst.ptr = 0 /\ inst.ntr = 32 /\ inst.enable = 32 /\ inst.sre = 128

\* C12 (as stated): the seconds array of a successful run has exactly
\* sample_points elements, the i-th being i * integration_time.
C12_SecondsAxis ==
    "seconds" \in DOMAIN log_data =>
        /\ Len(log_data["seconds"]) = log_settings.sample_points
        /\ \A i \in 1..Len(log_data["seconds"]) :
              log_data["seconds"][i] =
                  fmul(log_settings.integration_time, i - 1)

\* the measurement array of a run that stored one
Measured ==
    IF "current" \in DOMAIN log_data THEN log_data["current"]
    ELSE log_data["voltage"]

----------------------------------------------------------------------------
(* Observations on an accessor call *)

\* the result of the called method's own validation rule on its argument
Verdict(c) ==
    CASE c.name = "opr_enable_reg" -> validate_register_16(c.arg)
      [] c.name = "sample_points"  -> validate_sample_points(c.arg)
      [] c.name = "source"         -> validate_source(c.arg)
      [] c.name = "voltage"        -> validate_voltage(c.arg, c.ch)
      [] c.name = "current"        -> validate_current(c.arg, c.ch)
      [] c.name = "sense"          ->
            IF validate_sense(c.arg.s) = ValueErrorText
            THEN "ValueError" ELSE "ok"
      [] OTHER                     -> "ok"

\* accessors that hand their arguments to Command.read_write
ReadWriteAccessors ==
    {"opr_enable_reg", "sample_points", "source", "voltage", "current"}

\* those of them that pass a validator
ValidatedAccessors == {"opr_enable_reg", "sample_points", "source"}

\* the SCPI header an accessor writes
WriteCommand(c) ==
    CASE c.name = "opr_enable_reg" -> ":STAT:OPER:ENAB"
      [] c.name = "sample_points"  -> "SENS:SWE:POIN"
      [] c.name = "source"         -> "TRIG:ACQ:SOUR"
      [] c.name = "voltage"        -> IF c.ch = 1 THEN "VOLT" ELSE "VOLT2"
      [] c.name = "current"        -> IF c.ch = 1 THEN "CURR" ELSE "CURR2"

\* the query that reads back what WriteCommand sets
QueryCommand(c) ==
    CASE c.name = "opr_enable_reg" -> ":STAT:OPER:ENAB?"
      [] c.name = "sample_points"  -> "SENS:SWE:POIN?"
      [] c.name = "source"         -> "TRIG:ACQ:SOUR?"
      [] c.name = "voltage"        -> IF c.ch = 1 THEN "VOLT?" ELSE "VOLT2?"
      [] c.name = "current"        -> IF c.ch = 1 THEN "CURR?" ELSE "CURR2?"

IsSet(c) == c.arg # None

\* C14 (as stated): a setter called with a value of an invalid type raises
\* TypeError, and with a value outside the valid set or range raises
\* ValueError.
C14_InvalidInputRaises ==
    (call.name # "" /\ IsSet(call)) =>
        /\ Verdict(call) = "TypeError" => call.ret.k = "TypeError"
        /\ Verdict(call) = "ValueError" => call.ret.k = "ValueError"

\* C15: an accessor built on read_write, called without an argument, sends
\* one query and no write and returns the reply; called with a valid
\* argument, 0 included, it sends exactly one write "<command> <value>",
\* returns None, and queries only after the write, to refresh its cache.
C15_GetSetDuality ==
    call.name \in ReadWriteAccessors =>
        /\ ~IsSet(call) =>
              /\ Len(call.ops) = 1
              /\ call.ops[1].kind = "query"
              /\ call.ret = Ret("reply",
                                DevReply(inst, dev, call.ops[1].cmd))
        /\ (IsSet(call) /\ Verdict(call) = "ok") =>
              /\ Writes(call.ops) = {1}
              /\ call.ops[1] = BusOp("write", WriteCommand(call), call.arg)
              /\ call.ret = Ret("None", None)
              /\ Len(call.ops) <= 2
              /\ Queries(call.ops) # {} => call.name # "opr_enable_reg"

C15_Witness ==
    /\ call.name = "opr_enable_reg"
    /\ call.arg = PyInt(0)
    /\ call.ops = <<BusOp("write", ":STAT:OPER:ENAB", PyInt(0))>>
    /\ call.ret = Ret("None", None)
    /\ inst.enable = 0

\* C16 (as stated): after c.voltage(v) or c.current(v) with a valid v, the
\* getter of the same channel returns v and the channel's cache holds v.
C16_ChannelRoundTrip ==
    (call.name \in {"voltage", "current"} /\ IsSet(call)
        /\ Verdict(call) = "ok") =>
        /\ DevReply(inst, dev,
                    IF call.name = "voltage"
                    THEN QueryCommand(call)
                    ELSE current_query[call.ch]).i = call.arg.i
        /\ ch_set[call.ch][call.name] = call.arg.i

\* the run is between arming and the end of the SRQ wait
Waiting == pc = "wait"

PtrAdjusted ==
    /\ inst.ptr = pre.ptr - (IF HasBit(pre.ptr, wait_for_trig)
                             THEN wait_for_trig ELSE 0)
    /\ Count(trace, ":STAT:OPER:PTR") =
          (IF HasBit(pre.ptr, wait_for_trig) THEN 1 ELSE 0)

NtrAdjusted ==
    /\ inst.ntr = SetBit(pre.ntr, wait_for_trig)
    /\ Count(trace, ":STAT:OPER:NTR") =
          (IF HasBit(pre.ntr, wait_for_trig) THEN 0 ELSE 1)

\* C17 (as stated): for every snapshot p of PTR and n of NTR, during the
\* SRQ wait PTR is p without bit 32 and NTR is n with bit 32, and a write
\* is issued only for the register that needed a change.
C17_FiltersAdjustedEvery16Bit == Waiting => (PtrAdjusted /\ NtrAdjusted)

\* C17 (amended): the same for snapshot values that register_16 accepts,
\* 0..32767.
C17_FiltersAdjustedWhenValid ==
    Waiting =>
        /\ register_16(pre.ptr) = "ok" => PtrAdjusted
        /\ register_16(pre.ntr) = "ok" => NtrAdjusted

C17_Witness ==
    /\ Waiting
    /\ pre.ptr = 32767 /\ pre.ntr = 0
    /\ inst.ptr = 32735 /\ inst.ntr = 32
    /\ Count(trace, ":STAT:OPER:PTR") = 1
    /\ Count(trace, ":STAT:OPER:NTR") = 1

C19_ValidationGatesWrites ==
    (call.name \in {"voltage", "current", "sense"} /\ IsSet(call)
        /\ Verdict(call) # "ok") =>
        Writes(call.ops) = {}

\* the tokens a string argument of the call is validated against
AllowedTokens(c) ==
    IF c.name = "source" THEN source_values ELSE min_max

\* C20 (as stated): a string is accepted if and only if its lower-cased
\* form equals one of the allowed tokens, and then its upper-cased form is
\* returned; every other string, the empty string and fragments of a token
\* included, yields a ValueError result.
C20_ExactMembership ==
    (call.name \in {"source", "sample_points"} /\ call.arg.t = "str") =>
        LET v == call.arg.s
            member == lower(v) \in Tokens(AllowedTokens(call))
        IN  /\ str_tuple(AllowedTokens(call), v) =
                  (IF member THEN upper(v) ELSE ValueErrorText)
            /\ Writes(call.ops) # {} <=> member

----------------------------------------------------------------------------
(* Runs and the service request *)

\* the acquisition trigger has fired since the acquisition was last armed
Fired == inst.acq = "done"

LeftByTimeout(r) ==
    /\ r.enable = wait_for_trig
    /\ HasBit(r.ntr, wait_for_trig)
    /\ ~HasBit(r.ptr, wait_for_trig)

\* the snapshot of lines 461-463 has been taken
SnapshotTaken == pc \notin {"idle", "read_ptr", "read_ntr", "read_enable"}

\* C23: a run that follows a timed-out run snapshots the registers as the
\* timed-out run left them (ENABLE = 32, NTR with bit 32, PTR without) and
\* restores those values; a value from before the timed-out run is found
\* afterwards only if the timed-out run had left it in place.
C23_SnapshotAfterTimeout ==
    (last_timeout.timed_out /\ runs > 0 /\ ~TimedOut) =>
        /\ LeftByTimeout(pre)
        /\ SnapshotTaken =>
              /\ loc.opr_ptr_reg = pre.ptr
              /\ loc.opr_ntr_reg = pre.ntr
              /\ loc.opr_enable_reg = pre.enable
        /\ (Ended /\ outcome = "returned") =>
              /\ Restored
              /\ LeftByTimeout(inst)
              /\ inst.enable = last_timeout.pre.enable =>
                    last_timeout.pre.enable = wait_for_trig
              /\ inst.ntr = last_timeout.pre.ntr =>
                    HasBit(last_timeout.pre.ntr, wait_for_trig)
              /\ inst.ptr = last_timeout.pre.ptr =>
                    ~HasBit(last_timeout.pre.ptr, wait_for_trig)

C23_Witness ==
    /\ Ended /\ outcome = "returned" /\ runs = 2
    /\ last_timeout.timed_out
    /\ last_timeout.pre.ptr = 32767
    /\ last_timeout.pre.ntr = 0
    /\ last_timeout.pre.enable = 32767
    /\ inst.ptr = 32735 /\ inst.ntr = 32 /\ inst.enable = 32

----------------------------------------------------------------------------
(* The sweep settings cache *)

\* C21 (as stated): after any sequence of Log.sample_points and
\* Log.integration_time calls and resets through Common.rst, the cached
\* sample_points and integration_time equal the values configured on the
\* instrument.
C21_CacheCoherence ==
    /\ log_settings.sample_points = dev.points
    /\ log_settings.integration_time = dev.tint

----------------------------------------------------------------------------
(* Capability gating *)

DvmMethods == {"dvm_level", "dvm_hysteresis", "dvm_slope"}

SentNothing(c) == c.ops = <<>>

\* C24 (as stated): the flags are those of the connected model; on a model
\* without DVM the dvm methods send nothing and return 'NA', without
\* expanded features Channel.impedance sends nothing and returns 'NA',
\* without a second channel Display.show_ch2 sends nothing, and Device
\* has ch2 exactly when the model has a second channel.
C24_CapabilityGating ==
    /\ dvm = HasDvm(caps.model)
    /\ caps.ch2 = HasCh2(caps.model)
    /\ caps.expanded_features = HasExpanded(caps.model)
    /\ caps.ch2_attr = HasCh2(caps.model)
    /\ (call.name \in DvmMethods /\ ~HasDvm(caps.model)) =>
          (SentNothing(call) /\ call.ret = Ret("reply", NA))
    /\ (call.name = "impedance" /\ ~HasExpanded(caps.model)) =>
          (SentNothing(call) /\ call.ret = Ret("reply", NA))
    /\ (call.name = "show_ch2" /\ ~HasCh2(caps.model)) => SentNothing(call)

====
